---- MODULE Spec2Model ----
(***************************************************************************)
(* Model of comparar_pagos.py: two CSV sources (client, provider) are      *)
(* loaded into payment records, reconciled by (month, year, amount) with   *)
(* positional pairing, and the unmatched records are listed by date.       *)
(*                                                                         *)
(* Text is a sequence of one-character strings.  A Python float is         *)
(* [kind, m, e]: kind "num" is the decimal m / 10^e with m, e normalised   *)
(* (no trailing zero in the fraction), so "100" and "100.00" denote one    *)
(* value; kind "nan" carries in m the identity of the float object,        *)
(* because a dict key holding NaN equals only itself; kind "none" is       *)
(* Python's None.  A datetime is [year, month, day] (the time of day is    *)
(* always midnight) and NoDate is None.                                    *)
(***************************************************************************)
EXTENDS Integers, Sequences, FiniteSets, TLC

VARIABLES pc, client_file, provider_file, client_payments, provider_payments,
          matched_client, matched_provider, only_in_client, only_in_provider,
          listed_client, listed_provider, first_run,
          alt_client_file, alt_provider_file, alt_only_in_client,
          alt_only_in_provider

vars == <<pc, client_file, provider_file, client_payments, provider_payments,
          matched_client, matched_provider, only_in_client, only_in_provider,
          listed_client, listed_provider, first_run,
          alt_client_file, alt_provider_file, alt_only_in_client,
          alt_only_in_provider>>

\* Largest number of data rows in the client and in the provider source.
MaxClientRows == 3
MaxProviderRows == 2
\* Largest number of data rows of a source where two runs are compared.
MaxTwoRunRows == 2

---------------------------------------------------------------------------
\* Text helpers (str.strip, str.replace, str.split, int)

Whitespace == {" "}
Quote == {"\""}
DigitChars == <<"0", "1", "2", "3", "4", "5", "6", "7", "8", "9">>
Digits == {DigitChars[i] : i \in 1..10}

DigitVal(c) == (CHOOSE i \in 1..10 : DigitChars[i] = c) - 1

RECURSIVE lstrip(_, _)
lstrip(s, chars) ==
    IF s # <<>> /\ Head(s) \in chars THEN lstrip(Tail(s), chars) ELSE s

RECURSIVE rstrip(_, _)
rstrip(s, chars) ==
    IF s # <<>> /\ s[Len(s)] \in chars
    THEN rstrip(SubSeq(s, 1, Len(s) - 1), chars) ELSE s

strip(s, chars) == rstrip(lstrip(s, chars), chars)

replace(s, old) == SelectSeq(s, LAMBDA c : c # old)

RECURSIVE split(_, _)
split(s, sep) ==
    IF \E i \in 1..Len(s) : s[i] = sep
    THEN LET i == CHOOSE j \in 1..Len(s) :
                      s[j] = sep /\ \A k \in 1..(j - 1) : s[k] # sep
         IN  <<SubSeq(s, 1, i - 1)>> \o split(SubSeq(s, i + 1, Len(s)), sep)
    ELSE <<s>>

IsDigits(s) == \A i \in 1..Len(s) : s[i] \in Digits

RECURSIVE int(_)
int(s) ==
    IF s = <<>> THEN 0
    ELSE 10 * int(SubSeq(s, 1, Len(s) - 1)) + DigitVal(s[Len(s)])

---------------------------------------------------------------------------
\* parse_date

NoDate == [year |-> 0, month |-> 0, day |-> 0]

IsLeap(y) == y % 4 = 0 /\ (y % 100 # 0 \/ y % 400 = 0)

DaysInMonth(y, m) ==
    IF m = 2 THEN (IF IsLeap(y) THEN 29 ELSE 28)
    ELSE IF m \in {4, 6, 9, 11} THEN 30 ELSE 31

\* %y: 00..68 are 2000..2068, 69..99 are 1969..1999.
TwoDigitYear(y) == IF y < 69 THEN 2000 + y ELSE 1900 + y

\* datetime.strptime(date_str, '%d/%m/%Y') when ylen = 4 and
\* datetime.strptime(date_str, '%d/%m/%y') when ylen = 2; NoDate stands for
\* the ValueError the caller catches.
strptime(date_str, ylen) ==
    LET f == split(date_str, "/") IN
    IF /\ Len(f) = 3
       /\ \A i \in 1..3 : f[i] # <<>> /\ IsDigits(f[i])
       /\ Len(f[1]) <= 2 /\ Len(f[2]) <= 2 /\ Len(f[3]) = ylen
    THEN LET d == int(f[1])
             m == int(f[2])
             y == IF ylen = 4 THEN int(f[3]) ELSE TwoDigitYear(int(f[3]))
         IN  IF m \in 1..12 /\ y >= 1 /\ d >= 1 /\ d <= DaysInMonth(y, m)
             THEN [year |-> y, month |-> m, day |-> d]
             ELSE NoDate
    ELSE NoDate

parse_date(text) ==
    LET date_str == strip(strip(text, Whitespace), Quote) IN
    IF date_str = <<>> THEN NoDate
    ELSE IF strptime(date_str, 4) # NoDate THEN strptime(date_str, 4)
    ELSE strptime(date_str, 2)

get_month_year(date_obj) == <<date_obj.month, date_obj.year>>

---------------------------------------------------------------------------
\* parse_amount

None == [kind |-> "none", m |-> 0, e |-> 0]
NaN == [kind |-> "nan", m |-> 0, e |-> 0]

\* float(s) for the decimal literals [sign] digits [. digits] and for "nan";
\* None stands for the ValueError the caller catches.  The texts of the
\* model are of these shapes or are not numbers at all.
float(s) ==
    LET neg == s # <<>> /\ Head(s) = "-"
        body == IF s # <<>> /\ Head(s) \in {"-", "+"} THEN Tail(s) ELSE s
        f == split(body, ".")
        whole == f[1]
        frac == IF Len(f) = 2 THEN rstrip(f[2], {"0"}) ELSE <<>>
        mant == int(whole \o frac)
    IN  IF s = <<"n", "a", "n">> THEN NaN
        ELSE IF /\ Len(f) <= 2
                /\ \A i \in 1..Len(f) : IsDigits(f[i])
                /\ \E i \in 1..Len(f) : f[i] # <<>>
        THEN [kind |-> "num",
              m |-> IF neg THEN 0 - mant ELSE mant,
              e |-> IF mant = 0 THEN 0 ELSE Len(frac)]
        ELSE None

parse_amount(text) ==
    IF text = <<>> \/ strip(text, Whitespace) = <<>> THEN None
    ELSE float(replace(strip(strip(text, Whitespace), Quote), ","))

---------------------------------------------------------------------------
\* Record loaders.  A row is a function from the column names of its source
\* (csv.DictReader's fieldnames) to text; a source is [header, rows].

ClientColumns ==
    {"Cuenta", "Fecha", "Numero", "Descripcion", "Monto", "Tipo_de_Transferencia"}
ProviderColumns == {"Fecha", "Valor", "Medio_de_Pago"}

\* id(payment): distinct objects have distinct identities.
Address(source, i) == IF source = "client" THEN 2 * i ELSE 2 * i + 1

\* float() returns a new object on every call; only NaN's identity is
\* observable (through dict key comparison).
NewFloat(value, addr) ==
    IF value.kind = "nan" THEN [value EXCEPT !.m = addr] ELSE value

\* Python truthiness of a float or None.
Truthy(value) == value.kind = "nan" \/ (value.kind = "num" /\ value.m # 0)

\* `if fecha and monto`
Valid(fecha, monto) == fecha # NoDate /\ Truthy(monto)

ClientRowKept(row) == Valid(parse_date(row["Fecha"]), parse_amount(row["Monto"]))

\* The row raises KeyError: row['Fecha'] and row['Monto'] are read for every
\* row, the other columns only when the row is kept.
ClientRowRaises(row) ==
    \/ "Fecha" \notin DOMAIN row
    \/ "Monto" \notin DOMAIN row
    \/ /\ ClientRowKept(row)
       /\ ~({"Descripcion", "Tipo_de_Transferencia", "Cuenta", "Numero"}
              \subseteq DOMAIN row)

ClientRecord(row, i) ==
    LET fecha == parse_date(row["Fecha"]) IN
    [id |-> Address("client", i),
     fecha |-> fecha,
     mes_anio |-> get_month_year(fecha),
     monto |-> NewFloat(parse_amount(row["Monto"]), Address("client", i)),
     descripcion |-> strip(row["Descripcion"], Whitespace),
     tipo |-> strip(row["Tipo_de_Transferencia"], Whitespace),
     cuenta |-> strip(row["Cuenta"], Whitespace),
     numero |-> strip(row["Numero"], Whitespace),
     fecha_str |-> strip(row["Fecha"], Whitespace)]

RECURSIVE ClientRecords(_, _)
ClientRecords(rows, i) ==
    IF i > Len(rows) THEN <<>>
    ELSE (IF ClientRowKept(rows[i]) THEN <<ClientRecord(rows[i], i)>> ELSE <<>>)
         \o ClientRecords(rows, i + 1)

\* [raised, payments]: raised when a KeyError leaves the loader.
load_client_file(file) ==
    IF \E i \in 1..Len(file.rows) : ClientRowRaises(file.rows[i])
    THEN [raised |-> TRUE, payments |-> <<>>]
    ELSE [raised |-> FALSE, payments |-> ClientRecords(file.rows, 1)]

ProviderRowKept(row) == Valid(parse_date(row["Fecha"]), parse_amount(row["Valor"]))

ProviderRowRaises(row) ==
    \/ "Fecha" \notin DOMAIN row
    \/ "Valor" \notin DOMAIN row
    \/ ProviderRowKept(row) /\ "Medio_de_Pago" \notin DOMAIN row

ProviderRecord(row, i) ==
    LET fecha == parse_date(row["Fecha"]) IN
    [id |-> Address("provider", i),
     fecha |-> fecha,
     mes_anio |-> get_month_year(fecha),
     monto |-> NewFloat(parse_amount(row["Valor"]), Address("provider", i)),
     medio_pago |-> strip(strip(row["Medio_de_Pago"], Whitespace), Quote),
     fecha_str |-> strip(strip(row["Fecha"], Whitespace), Quote)]

RECURSIVE ProviderRecords(_, _)
ProviderRecords(rows, i) ==
    IF i > Len(rows) THEN <<>>
    ELSE (IF ProviderRowKept(rows[i]) THEN <<ProviderRecord(rows[i], i)>> ELSE <<>>)
         \o ProviderRecords(rows, i + 1)

load_provider_file(file) ==
    IF \E i \in 1..Len(file.rows) : ProviderRowRaises(file.rows[i])
    THEN [raised |-> TRUE, payments |-> <<>>]
    ELSE [raised |-> FALSE, payments |-> ProviderRecords(file.rows, 1)]

---------------------------------------------------------------------------
\* Reconciliation engine

\* Mutants of the key: with the day, and without the amount.
MatchGroupKeyWithDay(payment) ==
    <<payment.fecha.day, payment.mes_anio[1], payment.mes_anio[2], payment.monto>>

MatchGroupKeyNoAmount(payment) ==
    <<payment.mes_anio[1], payment.mes_anio[2]>>

MatchGroupKey(payment) ==
    <<payment.mes_anio[1], payment.mes_anio[2], payment.monto>>

\* The dict of groups: its keys, and the list under a key in input order.
GroupKeys(payments) == {MatchGroupKey(payments[i]) : i \in 1..Len(payments)}

\* Mutant: groups[key].insert(0, payment), the list in reverse input order.
RECURSIVE Reverse(_)
Reverse(s) == IF s = <<>> THEN <<>> ELSE Reverse(Tail(s)) \o <<Head(s)>>

group_by_prepending(payments, key) ==
    Reverse(SelectSeq(payments, LAMBDA p : MatchGroupKey(p) = key))

group_by_month_and_amount(payments, key) ==
    SelectSeq(payments, LAMBDA p : MatchGroupKey(p) = key)

\* Mutant: one pair per key.
MinOnePair(a, b) == 1

Min(a, b) == IF a <= b THEN a ELSE b

\* Mutant: range(1, pairs_to_match).
PairIndicesFromOne(pairs_to_match) == 2..pairs_to_match

\* range(pairs_to_match), as 1-based list positions
PairIndices(pairs_to_match) == 1..pairs_to_match

\* Mutant: `id(payment) in matched`.
UnmatchedInverted(payment, matched) == payment.id \in matched

\* `id(payment) not in matched`
Unmatched(payment, matched) == payment.id \notin matched

compare_payments(client, provider) ==
    LET both == GroupKeys(client) \cap GroupKeys(provider)
        client_list(key) == group_by_month_and_amount(client, key)
        provider_list(key) == group_by_month_and_amount(provider, key)
        pairs_to_match(key) == Min(Len(client_list(key)), Len(provider_list(key)))
        mc == UNION {{client_list(key)[i].id : i \in PairIndices(pairs_to_match(key))}
                       : key \in both}
        mp == UNION {{provider_list(key)[i].id : i \in PairIndices(pairs_to_match(key))}
                       : key \in both}
    IN  [matched_client |-> mc,
         matched_provider |-> mp,
         client_remaining |-> SelectSeq(client, LAMBDA p : Unmatched(p, mc)),
         provider_remaining |-> SelectSeq(provider, LAMBDA p : Unmatched(p, mp))]

---------------------------------------------------------------------------
\* Reporter: sorted(only_in_x, key=lambda x: x['fecha'])

DateLess(a, b) ==
    \/ a.year < b.year
    \/ a.year = b.year /\ a.month < b.month
    \/ a.year = b.year /\ a.month = b.month /\ a.day < b.day

\* Mutant: x goes before the elements of equal key.
InsertByDateBeforeEqual(s, x) ==
    LET n == Cardinality({i \in 1..Len(s) : DateLess(s[i].fecha, x.fecha)})
    IN  SubSeq(s, 1, n) \o <<x>> \o SubSeq(s, n + 1, Len(s))

\* x goes after every element whose key is not greater (stable).
InsertByDate(s, x) ==
    LET n == Cardinality({i \in 1..Len(s) : ~DateLess(x.fecha, s[i].fecha)})
    IN  SubSeq(s, 1, n) \o <<x>> \o SubSeq(s, n + 1, Len(s))

RECURSIVE sorted(_)
sorted(s) ==
    IF s = <<>> THEN <<>>
    ELSE InsertByDate(sorted(SubSeq(s, 1, Len(s) - 1)), s[Len(s)])

---------------------------------------------------------------------------
\* The inputs: sample rows of each source.

\* Client rows: 5 March 2024 and 1 March 2024 (two-digit year) of amount
\* 100, 10 April 2024 of 1,234.56, a NaN amount, a zero amount.
ClientRowMar5 ==
    [Cuenta |-> <<"7">>, Fecha |-> <<"0", "5", "/", "0", "3", "/", "2", "0", "2", "4">>, Numero |-> <<"1">>,
     Descripcion |-> <<" ", "a", " ">>, Monto |-> <<"1", "0", "0", ".", "0", "0">>,
     Tipo_de_Transferencia |-> <<"T">>]
ClientRowMar1 ==
    [Cuenta |-> <<"7">>, Fecha |-> <<"1", "/", "3", "/", "2", "4">>, Numero |-> <<"1">>,
     Descripcion |-> <<"b">>, Monto |-> <<"1", "0", "0">>,
     Tipo_de_Transferencia |-> <<"T">>]
ClientRowApr10 ==
    [Cuenta |-> <<"7">>, Fecha |-> <<"1", "0", "/", "0", "4", "/", "2", "0", "2", "4">>, Numero |-> <<"1">>,
     Descripcion |-> <<"c">>, Monto |-> <<"1", ",", "2", "3", "4", ".", "5", "6">>,
     Tipo_de_Transferencia |-> <<"T">>]
ClientRowNaN ==
    [Cuenta |-> <<"7">>, Fecha |-> <<"0", "5", "/", "0", "3", "/", "2", "0", "2", "4">>, Numero |-> <<"1">>,
     Descripcion |-> <<"d">>, Monto |-> <<"n", "a", "n">>,
     Tipo_de_Transferencia |-> <<"T">>]
ClientRowZero ==
    [Cuenta |-> <<"7">>, Fecha |-> <<"0", "5", "/", "0", "3", "/", "2", "0", "2", "4">>, Numero |-> <<"1">>,
     Descripcion |-> <<"e">>, Monto |-> <<"0">>,
     Tipo_de_Transferencia |-> <<"T">>]
\* Rows whose date or amount does not parse.
ClientRowBadDate ==
    [Cuenta |-> <<"7">>, Fecha |-> <<"3", "1", "/", "1", "3", "/", "2", "0", "2", "4">>, Numero |-> <<"1">>,
     Descripcion |-> <<"f">>, Monto |-> <<"5", "0", ".", "0", "0">>,
     Tipo_de_Transferencia |-> <<"T">>]
ClientRowBadAmount ==
    [Cuenta |-> <<"7">>, Fecha |-> <<"0", "5", "/", "0", "3", "/", "2", "0", "2", "4">>, Numero |-> <<"1">>,
     Descripcion |-> <<"g">>, Monto |-> <<"a", "b", "c">>,
     Tipo_de_Transferencia |-> <<"T">>]

ProviderRowMar28 ==
    [Fecha |-> <<"2", "8", "/", "0", "3", "/", "2", "0", "2", "4">>, Valor |-> <<"\"", "1", "0", "0", ".", "0", "0", "\"">>,
     Medio_de_Pago |-> <<"\"", "c", "a", "s", "h", "\"">>]
ProviderRowMar5 ==
    [Fecha |-> <<"0", "5", "/", "0", "3", "/", "2", "0", "2", "4">>, Valor |-> <<"1", "0", "0", ".", "0", "0">>,
     Medio_de_Pago |-> <<"c", "a", "r", "d">>]
ProviderRowNaN ==
    [Fecha |-> <<"2", "8", "/", "0", "3", "/", "2", "0", "2", "4">>, Valor |-> <<"n", "a", "n">>,
     Medio_de_Pago |-> <<"c", "a", "r", "d">>]
ProviderRowBadDate ==
    [Fecha |-> <<"3", "1", "/", "0", "2", "/", "2", "0", "2", "4">>, Valor |-> <<"1", "0", "0", ".", "0", "0">>,
     Medio_de_Pago |-> <<"c", "a", "r", "d">>]
ProviderRowZero ==
    [Fecha |-> <<"0", "5", "/", "0", "3", "/", "2", "0", "2", "4">>, Valor |-> <<"0", ".", "0", "0">>,
     Medio_de_Pago |-> <<"c", "a", "r", "d">>]

ClientRows ==
    {ClientRowMar5, ClientRowMar1, ClientRowApr10, ClientRowNaN, ClientRowZero}
ProviderRows ==
    {ProviderRowMar28, ProviderRowMar5, ProviderRowNaN, ProviderRowBadDate}

SeqsUpTo(S, n) == UNION {[1..k -> S] : k \in 0..n}

\* A source whose header is `header`: every row has exactly these columns.
Restrict(row, header) == [c \in header |-> row[c]]

Files(rows, header, n) ==
    {[header |-> header,
      rows |-> [i \in 1..Len(r) |-> Restrict(r[i], header)]] :
        r \in SeqsUpTo(rows, n)}

ClientFiles == Files(ClientRows, ClientColumns, MaxClientRows)
ProviderFiles == Files(ProviderRows, ProviderColumns, MaxProviderRows)

---------------------------------------------------------------------------
\* main(): load the client source, load the provider source, compare, report.

NoRun == [client |-> <<>>, provider |-> <<>>]

\* Nothing is loaded, compared or listed yet.
Fresh ==
    /\ pc = "start"
    /\ client_payments = <<>>
    /\ provider_payments = <<>>
    /\ matched_client = {}
    /\ matched_provider = {}
    /\ only_in_client = <<>>
    /\ only_in_provider = <<>>
    /\ listed_client = <<>>
    /\ listed_provider = <<>>
    /\ first_run = NoRun
    /\ alt_only_in_client = <<>>
    /\ alt_only_in_provider = <<>>

Init ==
    /\ client_file \in ClientFiles
    /\ provider_file \in ProviderFiles
    /\ alt_client_file = client_file
    /\ alt_provider_file = provider_file
    /\ Fresh

LoadClient ==
    /\ pc = "start"
    /\ LET r == load_client_file(client_file) IN
         /\ pc' = IF r.raised THEN "aborted" ELSE "client_loaded"
         /\ client_payments' = r.payments
    /\ UNCHANGED <<client_file, provider_file, provider_payments, matched_client,
                   matched_provider, only_in_client, only_in_provider,
                   listed_client, listed_provider, first_run, alt_client_file,
                   alt_provider_file, alt_only_in_client, alt_only_in_provider>>

LoadProvider ==
    /\ pc = "client_loaded"
    /\ LET r == load_provider_file(provider_file) IN
         /\ pc' = IF r.raised THEN "aborted" ELSE "loaded"
         /\ provider_payments' = r.payments
    /\ UNCHANGED <<client_file, provider_file, client_payments, matched_client,
                   matched_provider, only_in_client, only_in_provider,
                   listed_client, listed_provider, first_run, alt_client_file,
                   alt_provider_file, alt_only_in_client, alt_only_in_provider>>

\* Mutant: the matched records are removed from the argument lists in place.
CallComparePaymentsInPlace ==
    LET r == compare_payments(client_payments, provider_payments) IN
    /\ matched_client' = r.matched_client
    /\ matched_provider' = r.matched_provider
    /\ only_in_client' = r.client_remaining
    /\ only_in_provider' = r.provider_remaining
    /\ client_payments' = r.client_remaining
    /\ provider_payments' = r.provider_remaining

\* One call compare_payments(client_payments, provider_payments): the sets and
\* lists it builds are new at every call, the arguments are only read.
CallComparePayments ==
    LET r == compare_payments(client_payments, provider_payments) IN
    /\ matched_client' = r.matched_client
    /\ matched_provider' = r.matched_provider
    /\ only_in_client' = r.client_remaining
    /\ only_in_provider' = r.provider_remaining
    /\ client_payments' = client_payments
    /\ provider_payments' = provider_payments

ComparePayments ==
    /\ pc = "loaded"
    /\ pc' = "compared"
    /\ CallComparePayments
    /\ UNCHANGED <<client_file, provider_file, listed_client, listed_provider,
                   first_run, alt_client_file, alt_provider_file,
                   alt_only_in_client, alt_only_in_provider>>

PrintReport ==
    /\ pc = "compared"
    /\ pc' = "reported"
    /\ listed_client' = sorted(only_in_client)
    /\ listed_provider' = sorted(only_in_provider)
    /\ UNCHANGED <<client_file, provider_file, client_payments,
                   provider_payments, matched_client, matched_provider,
                   only_in_client, only_in_provider, first_run, alt_client_file,
                   alt_provider_file, alt_only_in_client, alt_only_in_provider>>

Next == LoadClient \/ LoadProvider \/ ComparePayments \/ PrintReport

Spec == Init /\ [][Next]_vars

---------------------------------------------------------------------------
\* Vocabulary of the properties, stated on the records themselves.

Compared == pc \in {"compared", "reported", "compared_again"}

\* The key (month, year, amount) of a record, read from its date and amount.
KeyOf(p) == <<p.fecha.month, p.fecha.year, p.monto>>
KeysOf(s) == {KeyOf(s[i]) : i \in 1..Len(s)}
Ids(s) == {s[i].id : i \in 1..Len(s)}
PositionsOfKey(s, key) == {i \in 1..Len(s) : KeyOf(s[i]) = key}
CountOfKey(s, key) == Cardinality(PositionsOfKey(s, key))
IdsOfKey(s, key) == {s[i].id : i \in PositionsOfKey(s, key)}
\* s[i] is the Rank-th record of its key in s.
Rank(s, i) == Cardinality({j \in PositionsOfKey(s, KeyOf(s[i])) : j <= i})
Smaller(a, b) == IF a <= b THEN a ELSE b
PositionOfId(s, id) == CHOOSE i \in 1..Len(s) : s[i].id = id
SortedByDate(s) ==
    \A i, j \in 1..Len(s) : i < j => ~DateLess(s[j].fecha, s[i].fecha)
\* s holds records of `input`, each once, in the order of `input`.
InInputOrder(s, input) ==
    /\ \A i \in 1..Len(s) : \E j \in 1..Len(input) : s[i] = input[j]
    /\ \A i, j \in 1..Len(s) :
         i < j => PositionOfId(input, s[i].id) < PositionOfId(input, s[j].id)
\* s holds exactly the records of t, each once.
SameRecords(s, t) ==
    /\ Len(s) = Len(t)
    /\ Ids(s) = Ids(t)
    /\ \A i \in 1..Len(s) : \E j \in 1..Len(t) : s[i] = t[j]
\* Among the records of s with equal dates, the order of `input` is kept.
StableFor(s, input) ==
    \A i, j \in 1..Len(s) :
        (i < j /\ s[i].fecha = s[j].fecha)
            => PositionOfId(input, s[i].id) < PositionOfId(input, s[j].id)

---------------------------------------------------------------------------
\* C1: for every key present on both sides with m client and n provider
\* records, exactly min(m,n) records of each side are marked matched, and
\* m - min(m,n) client and n - min(m,n) provider records of that key are in
\* the returned unmatched lists.
PairingCount ==
    Compared =>
        \A key \in KeysOf(client_payments) \cap KeysOf(provider_payments) :
            LET m == CountOfKey(client_payments, key)
                n == CountOfKey(provider_payments, key)
                k == Smaller(m, n)
            IN  /\ Cardinality(matched_client \cap IdsOfKey(client_payments, key)) = k
                /\ Cardinality(matched_provider \cap IdsOfKey(provider_payments, key)) = k
                /\ CountOfKey(only_in_client, key) = m - k
                /\ CountOfKey(only_in_provider, key) = n - k

\* A key with two provider records and more client records has been compared.
PairingCountWitness ==
    /\ Compared
    /\ \E key \in KeysOf(client_payments) \cap KeysOf(provider_payments) :
         /\ CountOfKey(provider_payments, key) = 2
         /\ CountOfKey(client_payments, key) > 2

\* C2: the matched client records and onlyInClient are disjoint and together
\* are the whole client input, no record dropped or duplicated; the same for
\* the provider side.
Partition ==
    Compared =>
        /\ matched_client \cap Ids(only_in_client) = {}
        /\ matched_client \cup Ids(only_in_client) = Ids(client_payments)
        /\ Cardinality(matched_client) + Len(only_in_client) = Len(client_payments)
        /\ InInputOrder(only_in_client, client_payments)
        /\ matched_provider \cap Ids(only_in_provider) = {}
        /\ matched_provider \cup Ids(only_in_provider) = Ids(provider_payments)
        /\ Cardinality(matched_provider) + Len(only_in_provider) = Len(provider_payments)
        /\ InInputOrder(only_in_provider, provider_payments)

\* Both sides have matched and unmatched records.
PartitionWitness ==
    /\ Compared
    /\ matched_client # {} /\ only_in_client # <<>>
    /\ matched_provider # {} /\ only_in_provider # <<>>

\* C4 as stated: the sequences compare_payments returns are sorted by date
\* ascending, records of equal date in input order.
ReturnedSortedByDate ==
    Compared =>
        /\ SortedByDate(only_in_client) /\ StableFor(only_in_client, client_payments)
        /\ SortedByDate(only_in_provider) /\ StableFor(only_in_provider, provider_payments)

\* C4 amended: compare_payments returns the unmatched records in input order;
\* the report lists them sorted by date ascending, records of equal date in
\* their input order.
ListedSortedByDate ==
    /\ Compared =>
         /\ InInputOrder(only_in_client, client_payments)
         /\ InInputOrder(only_in_provider, provider_payments)
    /\ pc = "reported" =>
         /\ SameRecords(listed_client, only_in_client)
         /\ SortedByDate(listed_client)
         /\ StableFor(listed_client, client_payments)
         /\ SameRecords(listed_provider, only_in_provider)
         /\ SortedByDate(listed_provider)
         /\ StableFor(listed_provider, provider_payments)

\* The report reordered the client list, which has two records of one date,
\* and reordered the provider list.
ListedSortedByDateWitness ==
    /\ pc = "reported"
    /\ listed_client # only_in_client
    /\ \E i, j \in 1..Len(listed_client) :
         i < j /\ listed_client[i].fecha = listed_client[j].fecha
    /\ listed_provider # only_in_provider

\* C5: for every key present on both sides the matched records are the first
\* min(m,n) records of that key in input order on each side, and the
\* unmatched ones are the last records of that key of the larger side.
PositionalPairing ==
    Compared =>
        \A key \in KeysOf(client_payments) \cap KeysOf(provider_payments) :
            LET k == Smaller(CountOfKey(client_payments, key),
                             CountOfKey(provider_payments, key))
            IN  /\ \A i \in PositionsOfKey(client_payments, key) :
                     /\ client_payments[i].id \in matched_client
                            <=> Rank(client_payments, i) <= k
                     /\ client_payments[i].id \in Ids(only_in_client)
                            <=> Rank(client_payments, i) > k
                /\ \A i \in PositionsOfKey(provider_payments, key) :
                     /\ provider_payments[i].id \in matched_provider
                            <=> Rank(provider_payments, i) <= k
                     /\ provider_payments[i].id \in Ids(only_in_provider)
                            <=> Rank(provider_payments, i) > k

\* A key with fewer client than provider records, the client record being of
\* the same day as the provider record left unmatched.
PositionalPairingWitness ==
    /\ Compared
    /\ \E key \in KeysOf(client_payments) \cap KeysOf(provider_payments) :
         /\ CountOfKey(client_payments, key) = 1
         /\ CountOfKey(provider_payments, key) = 2
         /\ \E i \in 1..Len(only_in_provider) :
              /\ KeyOf(only_in_provider[i]) = key
              /\ \E j \in PositionsOfKey(client_payments, key) :
                   client_payments[j].fecha = only_in_provider[i].fecha

\* C6: every record whose key does not occur on the other side is returned
\* as unmatched; with an empty other side everything is returned.
OneSidedKeysUnmatched ==
    Compared =>
        /\ \A i \in 1..Len(client_payments) :
             KeyOf(client_payments[i]) \notin KeysOf(provider_payments)
                 => \E j \in 1..Len(only_in_client) :
                        only_in_client[j] = client_payments[i]
        /\ \A i \in 1..Len(provider_payments) :
             KeyOf(provider_payments[i]) \notin KeysOf(client_payments)
                 => \E j \in 1..Len(only_in_provider) :
                        only_in_provider[j] = provider_payments[i]
        /\ provider_payments = <<>> => only_in_client = client_payments
        /\ client_payments = <<>> => only_in_provider = provider_payments

\* A client record shares month and year, not amount, with a provider
\* record, while another client record is matched.
OneSidedKeysUnmatchedWitness ==
    /\ Compared
    /\ matched_client # {}
    /\ \E i \in 1..Len(client_payments) :
         /\ KeyOf(client_payments[i]) \notin KeysOf(provider_payments)
         /\ \E j \in 1..Len(provider_payments) :
              client_payments[i].mes_anio = provider_payments[j].mes_anio

\* C10: as many records are matched on the client side as on the provider
\* side, and no key keeps unmatched records on both sides.
BalancedMatching ==
    Compared =>
        /\ Len(client_payments) - Len(only_in_client)
               = Len(provider_payments) - Len(only_in_provider)
        /\ KeysOf(only_in_client) \cap KeysOf(only_in_provider) = {}

\* A pair is matched, and both sides keep unmatched records.
BalancedMatchingWitness ==
    /\ Compared
    /\ Len(client_payments) - Len(only_in_client) >= 1
    /\ only_in_client # <<>>
    /\ only_in_provider # <<>>

---------------------------------------------------------------------------
\* The loaders alone, on sources with and without their expected columns.

LoaderClientRows ==
    {ClientRowMar5, ClientRowZero, ClientRowBadDate, ClientRowBadAmount}
LoaderProviderRows == {ProviderRowMar28, ProviderRowBadDate, ProviderRowZero}

LoaderClientFiles ==
    UNION {Files(LoaderClientRows, header, MaxClientRows) :
             header \in {ClientColumns, ClientColumns \ {"Monto"},
                         ClientColumns \ {"Descripcion"}}}
LoaderProviderFiles ==
    UNION {Files(LoaderProviderRows, header, MaxProviderRows) :
             header \in {ProviderColumns, ProviderColumns \ {"Valor"},
                         ProviderColumns \ {"Medio_de_Pago"}}}

InitLoad ==
    /\ client_file \in LoaderClientFiles
    /\ provider_file \in LoaderProviderFiles
    /\ alt_client_file = client_file
    /\ alt_provider_file = provider_file
    /\ Fresh

NextLoad == LoadClient \/ LoadProvider

SpecLoad == InitLoad /\ [][NextLoad]_vars

\* load_client_file, then load_provider_file, has returned its list.
ClientLoaded == pc \in {"client_loaded", "loaded"}
ProviderLoaded == pc = "loaded"

\* Every record of `payments` comes from one row of `rows`, each row giving
\* at most one record.
FromRows(payments, rows, source) ==
    /\ Cardinality(Ids(payments)) = Len(payments)
    /\ \A j \in 1..Len(payments) :
         \E i \in 1..Len(rows) :
             /\ payments[j].id = Address(source, i)
             /\ payments[j].fecha = parse_date(rows[i]["Fecha"])

\* C7 as stated: with the expected columns, every output record comes from
\* exactly one input row, the output is no longer than the input, and it is
\* as long as the input iff the date and the amount of every row parse (an
\* amount that parses to zero included).
LoaderKeepsParsedRows ==
    /\ (ClientLoaded /\ client_file.header = ClientColumns) =>
         /\ FromRows(client_payments, client_file.rows, "client")
         /\ Len(client_payments) <= Len(client_file.rows)
         /\ Len(client_payments) = Len(client_file.rows)
              <=> \A i \in 1..Len(client_file.rows) :
                     /\ parse_date(client_file.rows[i]["Fecha"]) # NoDate
                     /\ parse_amount(client_file.rows[i]["Monto"]) # None
    /\ (ProviderLoaded /\ provider_file.header = ProviderColumns) =>
         /\ FromRows(provider_payments, provider_file.rows, "provider")
         /\ Len(provider_payments) <= Len(provider_file.rows)
         /\ Len(provider_payments) = Len(provider_file.rows)
              <=> \A i \in 1..Len(provider_file.rows) :
                     /\ parse_date(provider_file.rows[i]["Fecha"]) # NoDate
                     /\ parse_amount(provider_file.rows[i]["Valor"]) # None

\* C8 as stated: a source that lacks an expected column never yields a list,
\* whatever its rows.
MissingColumnFailsLoad ==
    /\ client_file.header # ClientColumns => ~ClientLoaded
    /\ provider_file.header # ProviderColumns => ~ProviderLoaded

---------------------------------------------------------------------------
\* Two runs on sources that differ in the days and the descriptive fields
\* of their rows only.

DayClientRows == {ClientRowMar5, ClientRowMar1, ClientRowApr10}
DayProviderRows == {ProviderRowMar28, ProviderRowMar5}

\* g is r with another day of the same month and year, or other descriptive
\* fields; the amount is the same.
DayVariantRow(r, g, amount) ==
    \/ g = r
    \/ /\ parse_date(r["Fecha"]) # NoDate
       /\ parse_date(g["Fecha"]) # NoDate
       /\ get_month_year(parse_date(g["Fecha"])) = get_month_year(parse_date(r["Fecha"]))
       /\ parse_amount(g[amount]) = parse_amount(r[amount])

DayVariants(file, rows, amount) ==
    {[header |-> file.header, rows |-> g] :
        g \in {h \in [1..Len(file.rows) -> rows] :
                 \A i \in 1..Len(file.rows) :
                     DayVariantRow(file.rows[i], h[i], amount)}}

InitDay ==
    /\ client_file \in Files(DayClientRows, ClientColumns, MaxTwoRunRows)
    /\ provider_file \in Files(DayProviderRows, ProviderColumns, MaxTwoRunRows)
    /\ alt_client_file \in DayVariants(client_file, DayClientRows, "Monto")
    /\ alt_provider_file \in DayVariants(provider_file, DayProviderRows, "Valor")
    /\ Fresh

\* The run on the loaded sources and the run on their variants.
CompareDayVariants ==
    /\ pc = "loaded"
    /\ pc' = "compared"
    /\ CallComparePayments
    /\ LET r == compare_payments(load_client_file(alt_client_file).payments,
                                 load_provider_file(alt_provider_file).payments)
       IN  /\ alt_only_in_client' = r.client_remaining
           /\ alt_only_in_provider' = r.provider_remaining
    /\ UNCHANGED <<client_file, provider_file, listed_client, listed_provider,
                   first_run, alt_client_file, alt_provider_file>>

NextDay == LoadClient \/ LoadProvider \/ CompareDayVariants

SpecDay == InitDay /\ [][NextDay]_vars

\* The input positions (row identities) of a returned list, in order.
PositionsReturned(s) == [i \in 1..Len(s) |-> s[i].id]

\* C3: the records returned as unmatched, by input position, are the same
\* when days within the month and descriptive fields change; one client and
\* one provider record of the same month, year and amount and of different
\* days are matched, both returned lists being empty.
DayIndependence ==
    pc = "compared" =>
        /\ PositionsReturned(only_in_client) = PositionsReturned(alt_only_in_client)
        /\ PositionsReturned(only_in_provider) = PositionsReturned(alt_only_in_provider)
        /\ (/\ Len(client_payments) = 1
            /\ Len(provider_payments) = 1
            /\ KeyOf(client_payments[1]) = KeyOf(provider_payments[1])
            /\ client_payments[1].fecha.day # provider_payments[1].fecha.day)
               => only_in_client = <<>> /\ only_in_provider = <<>>

\* The variant changed a day and a description, and a pair of records of
\* different days is matched while other records are returned.
DayIndependenceWitness ==
    /\ pc = "compared"
    /\ alt_client_file # client_file
    /\ alt_provider_file # provider_file
    /\ only_in_client # <<>>
    /\ \E i \in 1..Len(client_payments), j \in 1..Len(provider_payments) :
         /\ client_payments[i].id \in matched_client
         /\ provider_payments[j].id \in matched_provider
         /\ KeyOf(client_payments[i]) = KeyOf(provider_payments[j])
         /\ client_payments[i].fecha.day # provider_payments[j].fecha.day

---------------------------------------------------------------------------
\* compare_payments called twice on the same loaded lists.

CompareAgain ==
    /\ pc = "compared"
    /\ pc' = "compared_again"
    /\ first_run' = [client |-> only_in_client, provider |-> only_in_provider]
    /\ CallComparePayments
    /\ UNCHANGED <<client_file, provider_file, listed_client, listed_provider,
                   alt_client_file, alt_provider_file, alt_only_in_client,
                   alt_only_in_provider>>

InitTwice ==
    /\ client_file \in Files(ClientRows, ClientColumns, MaxTwoRunRows)
    /\ provider_file \in Files(ProviderRows, ProviderColumns, MaxTwoRunRows)
    /\ alt_client_file = client_file
    /\ alt_provider_file = provider_file
    /\ Fresh

NextTwice == LoadClient \/ LoadProvider \/ ComparePayments \/ CompareAgain

SpecTwice == InitTwice /\ [][NextTwice]_vars

====
